---------------------------- MODULE Spec2Model ----------------------------
(***************************************************************************)
(* Crystal ingestion pipeline: the deduplicating store                     *)
(* (SentimentRepository over the sentiment_item table), the run records    *)
(* (JobRepository over the daily_job_run table) and the daily cycle        *)
(* run_daily_crystal_job that drives both through one SQLAlchemy session.  *)
(*                                                                         *)
(* Two callers share the database: the scheduler thread and a manual       *)
(* caller (scripts/run_daily_once.py, the trigger_crawl endpoint).  Each   *)
(* works through a session of its own made by SessionLocal, which is       *)
(* configured autoflush=False: objects added to a session are invisible to *)
(* every query, the session's own included, until commit() flushes them.   *)
(* A commit whose flush hits a unique constraint raises IntegrityError,    *)
(* rolls the transaction back, expires every object of the session and     *)
(* leaves the session unusable until rollback() is called: every query,    *)
(* commit and reload of an expired attribute raises PendingRollbackError.  *)
(* The code never calls rollback().                                        *)
(***************************************************************************)
EXTENDS Integers, Sequences, FiniteSets, TLC

\* ------------------------------------------------------------------ bounds
\* How many invocations (cycles and direct store calls) a behaviour holds.
MaxRuns == 2
\* The longest batch a fetch returns or a caller submits.
MaxBatch == 2
\* How many distinct comment ids a platform's feed holds.
NumKeys == 2
\* How many calendar days cycles are invoked for.
NumDates == 1
\* How many store calls a sequential run of the store holds.
MaxCalls == 3
\* The longest page a platform serves to an adapter.
MaxPageLen == 2
\* The page ceiling of every adapter loop (max_pages = 10 or 5, max_offset =
\* 100 or 60 in steps of 20 in the source), scaled down.
MaxPages == 2
\* Wall-clock readings run from 1 to MaxWall, in units of eight hours.
MaxWall == 3
\* The largest engagement count (likes, comments, reposts) of a post.
MaxCount == 3

\* --------------------------------------------------------------- the data
Procs == {"scheduler", "manual"}

PlatformList == <<"weibo", "zhihu", "xueqiu">>

Dates == 1..NumDates

PENDING == "pending"
RUNNING == "running"
SUCCESS == "success"
FAILED == "failed"
PARTIAL == "partial"

TerminalStatuses == {SUCCESS, FAILED, PARTIAL}

\* The watch_target rows: two weibo accounts, a zhihu account, a xueqiu keyword.
WatchTargetRows ==
  << [platform |-> "weibo", target_type |-> "account", enabled |-> TRUE],
     [platform |-> "weibo", target_type |-> "account", enabled |-> TRUE],
     [platform |-> "zhihu", target_type |-> "account", enabled |-> TRUE],
     [platform |-> "xueqiu", target_type |-> "keyword", enabled |-> TRUE] >>

\* The platform_account rows: weibo and xueqiu each have an account that is
\* active and online; zhihu's only account has gone offline.  cookies is the
\* set of cookie names the row's JSON holds.
PlatformAccountRows ==
  << [platform |-> "weibo", is_active |-> TRUE, login_status |-> "online",
      cookies |-> {"SUB"}],
     [platform |-> "zhihu", is_active |-> TRUE, login_status |-> "offline",
      cookies |-> {"z_c0"}],
     [platform |-> "xueqiu", is_active |-> TRUE, login_status |-> "online",
      cookies |-> {"xq_a_token"}] >>

\* The contents a platform may serve for one comment id: an edited post comes
\* back with the same id and another text.
Contents == {"v1", "v2"}

ContentsOf(k) == IF k = 1 THEN Contents ELSE {"v1"}

\* The item dictionaries _build_item makes for a platform.
ItemsOf(platform) ==
  UNION { { [platform |-> platform, comment_id |-> k, content |-> c] :
              c \in ContentsOf(k) } : k \in 1..NumKeys }

\* All sequences over S of length at most n.
RECURSIVE SeqsUpTo(_, _)
SeqsUpTo(S, n) ==
  IF n = 0 THEN { <<>> }
  ELSE LET shorter == SeqsUpTo(S, n - 1)
       IN  shorter \cup { Append(s, x) : s \in shorter, x \in S }

Batches(platform) == SeqsUpTo(ItemsOf(platform), MaxBatch)

Key(item) == <<item.platform, item.comment_id>>

DistinctKeys(batch) ==
  \A i, j \in DOMAIN batch : i # j => Key(batch[i]) # Key(batch[j])

\* ---------------------------------------------------------------- the state
VARIABLES
  sentiment_item,   \* the committed rows of table sentiment_item, in id order
  daily_job_run,    \* the committed rows of table daily_job_run, in id order
  pc,               \* each caller's position
  session_ok,       \* FALSE once a commit of the caller's session has failed
  loc,              \* each caller's local variables
  outcome,          \* how each caller's last invocation ended
  runs,             \* invocations started so far
  calls,            \* the last completed store call (sequential runs)
  fx,               \* one run of an adapter's fetch or fetch_by_keyword
  watch_target,     \* the rows of table watch_target, in id order
  heat              \* one post on its way through a heat_score computation

vars == <<sentiment_item, daily_job_run, pc, session_ok, loc, outcome, runs,
          calls, fx, watch_target, heat>>

\* ------------------------------------------------------- the store's rules
\* SentimentRepository.exists: a query, which sees committed rows only.
exists(tbl, platform, comment_id) ==
  \E i \in DOMAIN tbl :
     tbl[i].platform = platform /\ tbl[i].comment_id = comment_id

\* UniqueConstraint uq_platform_comment: TRUE when the row may be inserted.
uq_platform_comment_off(tbl, row) == TRUE

uq_platform_comment(tbl, row) ==
  ~ \E i \in DOMAIN tbl :
       tbl[i].platform = row.platform /\ tbl[i].comment_id = row.comment_id

\* UniqueConstraint uq_date_platform: TRUE when the row may be inserted.
uq_date_platform_off(tbl, row) == TRUE

uq_date_platform(tbl, row) ==
  ~ \E i \in DOMAIN tbl :
       tbl[i].date = row.date /\ tbl[i].platform = row.platform

\* INSERT of one sentiment_item row; the mutant is INSERT OR REPLACE.
InsertOrReplace(tbl, row) ==
  IF uq_platform_comment(tbl, row)
    THEN [ok |-> TRUE, rows |-> Append(tbl, row)]
    ELSE [ok |-> TRUE,
          rows |-> [i \in DOMAIN tbl |->
                     IF Key(tbl[i]) = Key(row) THEN row ELSE tbl[i]]]

InsertItem(tbl, row) ==
  IF uq_platform_comment(tbl, row)
    THEN [ok |-> TRUE, rows |-> Append(tbl, row)]
    ELSE [ok |-> FALSE, rows |-> tbl]

\* The flush of a commit: the session's pending objects are inserted in the
\* order they were added; the first constraint violation ends the flush.
RECURSIVE FlushItems(_, _)
FlushItems(tbl, pending) ==
  IF pending = <<>> THEN [ok |-> TRUE, rows |-> tbl]
  ELSE LET r == InsertItem(tbl, Head(pending))
       IN  IF r.ok THEN FlushItems(r.rows, Tail(pending))
           ELSE [ok |-> FALSE, rows |-> r.rows]

\* self.db.commit() with sentiment_item objects pending: the flush, and on
\* IntegrityError the rollback of the whole transaction.
CommitItems(tbl, pending) ==
  LET r == FlushItems(tbl, pending)
  IN  IF r.ok THEN r ELSE [ok |-> FALSE, rows |-> tbl]

\* One pass of bulk_create's loop: st is [pending, created_count].
bulk_create_step_noexists(tbl, st, item) ==
  [pending |-> Append(st.pending, item),
   created_count |-> st.created_count + 1]

bulk_create_step(tbl, st, item) ==
  IF ~ exists(tbl, item.platform, item.comment_id)
    THEN [pending |-> Append(st.pending, item),
          created_count |-> st.created_count + 1]
    ELSE st

\* Optional arguments and nullable columns: None is <<>>, a value v is <<v>>.
None == <<>>

Some(v) == <<v>>

\* A new DailyJobRun as JobRepository.create builds it (column defaults).
NewJob(date, platform) ==
  [date |-> date, platform |-> platform, status |-> PENDING,
   total_targets |-> 0, total_items |-> 0, error_detail |-> None]

\* A create that looks the (date, platform) row up first and reuses it.
create_job_upsert(tbl, date, platform) ==
  IF uq_date_platform(tbl, NewJob(date, platform))
    THEN [ok |-> TRUE, rows |-> Append(tbl, NewJob(date, platform)),
          id |-> Len(tbl) + 1]
    ELSE [ok |-> TRUE, rows |-> tbl,
          id |-> CHOOSE i \in DOMAIN tbl :
                   tbl[i].date = date /\ tbl[i].platform = platform]

\* JobRepository.create: add and commit; the commit fails on a duplicate
\* (date, platform).
create_job(tbl, date, platform) ==
  IF uq_date_platform(tbl, NewJob(date, platform))
    THEN [ok |-> TRUE, rows |-> Append(tbl, NewJob(date, platform)),
          id |-> Len(tbl) + 1]
    ELSE [ok |-> FALSE, rows |-> tbl, id |-> 0]

\* An update that writes the status and the error text but not the totals.
update_status_only(tbl, job_id, status, total_targets, total_items, error_detail) ==
  [tbl EXCEPT ![job_id] =
     [@ EXCEPT !.status = status,
               !.error_detail = IF error_detail # None THEN error_detail ELSE @]]

\* JobRepository.update_status on an existing row: None arguments leave the
\* column alone.
update_status(tbl, job_id, status, total_targets, total_items, error_detail) ==
  [tbl EXCEPT ![job_id] =
     [@ EXCEPT !.status = status,
               !.total_targets = IF total_targets # None THEN total_targets[1] ELSE @,
               !.total_items = IF total_items # None THEN total_items[1] ELSE @,
               !.error_detail = IF error_detail # None THEN error_detail ELSE @]]

\* AccountRepository.get_active_by_platform: the first row of the platform
\* that is active and online, or None.
get_active_by_platform(platform) ==
  LET Wanted(i) == /\ PlatformAccountRows[i].platform = platform
                   /\ PlatformAccountRows[i].is_active
                   /\ PlatformAccountRows[i].login_status = "online"
      found == SelectSeq([i \in DOMAIN PlatformAccountRows |-> i], Wanted)
  IN  IF found = <<>> THEN None ELSE Some(PlatformAccountRows[found[1]])

\* The ids of the targets that are enabled.
EnabledIds(tbl) == { i \in DOMAIN tbl : tbl[i].enabled }

\* A listing that leaves out the enabled filter.
get_by_platform_any(platform) ==
  LET Wanted(i) == watch_target[i].platform = platform
  IN  SelectSeq([i \in DOMAIN watch_target |-> i], Wanted)

\* WatchTargetRepository.get_by_platform: the ids of the platform's enabled
\* targets, in id order.
get_by_platform(platform) ==
  LET Wanted(i) == /\ watch_target[i].platform = platform
                   /\ watch_target[i].enabled
  IN  SelectSeq([i \in DOMAIN watch_target |-> i], Wanted)

\* What crawler.fetch may return to the cycle, over every feed the platform
\* may serve.  No adapter's fetch raises: each wraps its requests in a try
\* whose except logs and returns the items gathered so far.  The cycle's
\* window is timezone-aware (SHANGHAI_TZ.localize); zhihu's adapter builds
\* naive timestamps, so its comparison with the window start raises inside the
\* adapter's own try and the adapter returns what it has: nothing.  A xueqiu
\* keyword target goes through fetch_by_keyword, which has no such comparison.
\* Weibo's comparison succeeds for created_at strings that parse with an
\* offset (any but the "+0800" the adapter rewrites).  A feed may serve one
\* post twice (it shifts between page requests), so a batch may repeat a key.
FetchResults(target) ==
  IF target.platform = "weibo" THEN Batches("weibo")
  ELSE IF target.platform = "xueqiu" /\ target.target_type = "keyword"
    THEN Batches("xueqiu")
  ELSE { <<>> }

\* The status of the (date, platform) run record, "none" when there is none.
StatusOf(tbl, date, platform) ==
  IF \E i \in DOMAIN tbl : tbl[i].date = date /\ tbl[i].platform = platform
    THEN LET i == CHOOSE i \in DOMAIN tbl :
                    tbl[i].date = date /\ tbl[i].platform = platform
         IN  tbl[i].status
    ELSE "none"

\* SentimentRepository.bulk_create run without interruption: the loop over
\* the batch against the committed rows, then the commit.
RECURSIVE bulk_create_loop(_, _, _)
bulk_create_loop(tbl, st, batch) ==
  IF batch = <<>> THEN st
  ELSE bulk_create_loop(tbl, bulk_create_step(tbl, st, Head(batch)), Tail(batch))

bulk_create(tbl, batch) ==
  LET st == bulk_create_loop(tbl, [pending |-> <<>>, created_count |-> 0], batch)
      r == CommitItems(tbl, st.pending)
  IN  [ok |-> r.ok, rows |-> r.rows, count |-> st.created_count]

\* ------------------------------------------------------- callers' locals
IdleLoc ==
  [kind |-> "none", date |-> 0, prior |-> "none", main_job |-> 0,
   platform_job |-> 0, plat |-> 0, targets |-> <<>>, ti |-> 0,
   platform_items |-> 0, total_items |-> 0, total_targets |-> 0,
   errors |-> <<>>, batch |-> <<>>, bi |-> 0, pending |-> <<>>,
   created_count |-> 0, inflight |-> FALSE, failed |-> None,
   cookies |-> {}, inserted |-> <<0, 0, 0>>, listed |-> {}]

NoOutcome ==
  [kind |-> "none", how |-> "none", error |-> "", count |-> 0,
   result |-> None, prior |-> "none", date |-> 0, distinct |-> TRUE,
   all_stored |-> TRUE, edited |-> FALSE, inflight |-> FALSE,
   failed |-> None, errors |-> <<>>, main_job |-> 0,
   inserted |-> <<0, 0, 0>>]

\* Whether every item of the batch has a row with its key.
AllStored(tbl, batch) ==
  \A k \in DOMAIN batch : exists(tbl, batch[k].platform, batch[k].comment_id)

\* Whether the batch carries, for a stored key, content other than the row's.
CarriesEdit(tbl, batch) ==
  \E k \in DOMAIN batch, i \in DOMAIN tbl :
     /\ Key(tbl[i]) = Key(batch[k])
     /\ tbl[i].content # batch[k].content

\* No call of an adapter yet.
NoCall == [adapter |-> "", method |-> "", target_type |-> "", fields |-> {}]

\* No fetch is under way.  Beside the adapter's own locals (readers, ri, page,
\* max_id, items) the record keeps what an observer of the call would note:
\* the posts served, the requests sent, the first failed request, whether
\* the comparison with from_date raised.
NoFetch ==
  [state |-> "idle", call |-> NoCall, win |-> [from |-> 0, to |-> 0, tz |-> "naive"],
   token |-> FALSE,
   readers |-> <<>>, ri |-> 0, page |-> 0, max_id |-> 0, items |-> <<>>,
   served |-> 0, expected |-> <<>>, newest_first |-> TRUE, stamped |-> TRUE,
   failed |-> FALSE, type_error |-> FALSE, last |-> MaxWall + 1,
   asked |-> <<>>, http |-> 0, rested |-> TRUE, pages |-> 0, crossed |-> FALSE,
   fail |-> <<>>, how |-> ""]

\* No post is being scored.
NoHeat ==
  [state |-> "idle", site |-> "", likes |-> 0, comments |-> 0, reposts |-> 0,
   heat_score |-> <<>>]

Init ==
  /\ sentiment_item = <<>>
  /\ daily_job_run = <<>>
  /\ pc = [p \in Procs |-> "idle"]
  /\ session_ok = [p \in Procs |-> TRUE]
  /\ loc = [p \in Procs |-> IdleLoc]
  /\ outcome = [p \in Procs |-> NoOutcome]
  /\ runs = 0
  /\ calls = <<>>
  /\ fx = NoFetch
  /\ watch_target = WatchTargetRows
  /\ heat = NoHeat

\* The invocation of p ends: its session is closed and its locals are gone.
\* The outcome keeps, of a direct call's batch, what the claims ask about it,
\* judged against the rows tbl as the call leaves them, and of a cycle the
\* errors it gathered, the id of the umbrella record it created and, platform
\* by platform, how many rows its commits added (inserted).
EndWithRows(p, how, error, count, result, tbl) ==
  /\ pc' = [pc EXCEPT ![p] = "idle"]
  /\ session_ok' = [session_ok EXCEPT ![p] = TRUE]
  /\ outcome' = [outcome EXCEPT ![p] =
                   [kind |-> loc[p].kind, how |-> how, error |-> error,
                    count |-> count, result |-> result,
                    prior |-> loc[p].prior, date |-> loc[p].date,
                    distinct |-> DistinctKeys(loc[p].batch),
                    all_stored |-> AllStored(tbl, loc[p].batch),
                    edited |-> CarriesEdit(tbl, loc[p].batch),
                    inflight |-> loc[p].inflight,
                    failed |-> loc[p].failed,
                    errors |-> loc[p].errors,
                    main_job |-> loc[p].main_job,
                    inserted |-> loc[p].inserted]]
  /\ loc' = [loc EXCEPT ![p] = IdleLoc]

EndWith(p, how, error, count, result) ==
  EndWithRows(p, how, error, count, result, sentiment_item)

Raise(p, error) == EndWith(p, "raised", error, 0, None)

\* The locals after the target loop moves on from target ti, given the
\* locals l the current target leaves behind.
NextTarget(p, l) ==
  /\ loc' = [loc EXCEPT ![p] =
               [l EXCEPT !.ti = l.ti + 1, !.batch = <<>>, !.bi = 0,
                         !.pending = <<>>, !.created_count = 0]]
  /\ pc' = [pc EXCEPT ![p] =
              IF l.ti + 1 > Len(l.targets) THEN "plat_success" ELSE "fetch"]

\* A platform loop that ends after its first platform.
NextPlatformBreaks(p, l) ==
  /\ loc' = [loc EXCEPT ![p] =
               [l EXCEPT !.plat = Len(PlatformList) + 1, !.platform_job = 0,
                         !.targets = <<>>, !.ti = 0, !.platform_items = 0]]
  /\ pc' = [pc EXCEPT ![p] = "main_final"]

\* The locals after the platform loop moves on from platform plat.
NextPlatform(p, l) ==
  /\ loc' = [loc EXCEPT ![p] =
               [l EXCEPT !.plat = l.plat + 1, !.platform_job = 0,
                         !.targets = <<>>, !.ti = 0, !.platform_items = 0]]
  /\ pc' = [pc EXCEPT ![p] =
              IF l.plat + 1 > Len(PlatformList) THEN "main_final"
              ELSE "plat_create"]

\* The target whose processing raised: its platform, its id, the exception,
\* and how many enabled targets of the platform come after it.
FailedTarget(l, error) ==
  [platform |-> PlatformList[l.plat], target |-> l.targets[l.ti],
   error |-> error, later |-> Len(l.targets) - l.ti]

PlatformError(l, error) ==
  [platform |-> PlatformList[l.plat], target |-> 0, error |-> error]

\* ------------------------------------------------- run_daily_crystal_job
\* Whether a cycle of another caller is under way for date d.
InFlight(p, d) ==
  \E q \in Procs \ {p} : loc[q].kind = "cycle" /\ loc[q].date = d

\* The call: the date range is fixed and a session is opened (lines 32-50).
\* prior and inflight note what the call found: the status of the date's
\* umbrella record and whether another cycle for the date was under way.
Invoke(p, d) ==
  /\ pc[p] = "idle"
  /\ runs < MaxRuns
  /\ runs' = runs + 1
  /\ pc' = [pc EXCEPT ![p] = "main_create"]
  /\ session_ok' = [session_ok EXCEPT ![p] = TRUE]
  /\ loc' = [loc EXCEPT ![p] =
               [IdleLoc EXCEPT !.kind = "cycle", !.date = d,
                                !.prior = StatusOf(daily_job_run, d, "all"),
                                !.inflight = InFlight(p, d)]]
  /\ outcome' = [outcome EXCEPT ![p] = NoOutcome]
  /\ UNCHANGED <<sentiment_item, daily_job_run, calls, fx, watch_target, heat>>

\* main_job = job_repo.create(date_str, "all") (line 53): an exception here
\* reaches the outer except, which re-raises it.
MainCreate(p) ==
  /\ pc[p] = "main_create"
  /\ LET r == create_job(daily_job_run, loc[p].date, "all")
     IN  IF r.ok
           THEN /\ daily_job_run' = r.rows
                /\ loc' = [loc EXCEPT ![p].main_job = r.id]
                /\ pc' = [pc EXCEPT ![p] = "main_running"]
                /\ UNCHANGED <<session_ok, outcome>>
           ELSE /\ Raise(p, "IntegrityError")
                /\ UNCHANGED daily_job_run
  /\ UNCHANGED <<sentiment_item, runs, calls, fx, watch_target, heat>>

\* job_repo.update_status(main_job.id, RUNNING) (line 54).
MainRunning(p) ==
  /\ pc[p] = "main_running"
  /\ daily_job_run' =
       update_status(daily_job_run, loc[p].main_job, RUNNING, None, None, None)
  /\ loc' = [loc EXCEPT ![p].plat = 1]
  /\ pc' = [pc EXCEPT ![p] = "plat_create"]
  /\ UNCHANGED <<sentiment_item, session_ok, outcome, runs, calls, fx,
                 watch_target, heat>>

\* platform_job = job_repo.create(date_str, platform_name) (line 68), outside
\* the platform's try.
PlatCreate(p) ==
  /\ pc[p] = "plat_create"
  /\ LET r == create_job(daily_job_run, loc[p].date, PlatformList[loc[p].plat])
     IN  IF r.ok
           THEN /\ daily_job_run' = r.rows
                /\ loc' = [loc EXCEPT ![p].platform_job = r.id]
                /\ pc' = [pc EXCEPT ![p] = "plat_running"]
                /\ UNCHANGED <<session_ok, outcome>>
           ELSE /\ Raise(p, "IntegrityError")
                /\ UNCHANGED daily_job_run
  /\ UNCHANGED <<sentiment_item, runs, calls, fx, watch_target, heat>>

\* job_repo.update_status(platform_job.id, RUNNING) (line 69).
PlatRunning(p) ==
  /\ pc[p] = "plat_running"
  /\ daily_job_run' =
       update_status(daily_job_run, loc[p].platform_job, RUNNING, None, None, None)
  /\ pc' = [pc EXCEPT ![p] = "plat_setup"]
  /\ UNCHANGED <<sentiment_item, session_ok, loc, outcome, runs, calls, fx,
                 watch_target, heat>>

\* The account lookup, the crawler and the target list (lines 72-86):
\* cookies = account.cookies if account else {}; crawler = ...Crawler(cookies);
\* targets = target_repo.get_by_platform(platform_name); platform_items = 0.
PlatSetup(p) ==
  /\ pc[p] = "plat_setup"
  /\ LET account == get_active_by_platform(PlatformList[loc[p].plat])
         cookies == IF account # None THEN account[1].cookies ELSE {}
         targets == get_by_platform(PlatformList[loc[p].plat])
     IN  /\ loc' = [loc EXCEPT ![p].cookies = cookies,
                               ![p].targets = targets, ![p].ti = 1,
                               ![p].platform_items = 0,
                               ![p].listed = EnabledIds(watch_target)]
         /\ pc' = [pc EXCEPT ![p] =
                     IF targets = <<>> THEN "plat_success" ELSE "fetch"]
  /\ UNCHANGED <<sentiment_item, daily_job_run, session_ok, outcome, runs,
                 calls, fx, watch_target, heat>>

\* total_targets += 1; items = await crawler.fetch(...); if items: ...
\* (lines 89-96).  An empty list skips bulk_create.
Fetch(p) ==
  /\ pc[p] = "fetch"
  /\ \E batch \in FetchResults(WatchTargetRows[loc[p].targets[loc[p].ti]]) :
       LET l == [loc[p] EXCEPT !.total_targets = @ + 1]
       IN  IF batch = <<>>
             THEN NextTarget(p, l)
             ELSE /\ loc' = [loc EXCEPT ![p] =
                               [l EXCEPT !.batch = batch, !.bi = 1,
                                         !.pending = <<>>, !.created_count = 0]]
                  /\ pc' = [pc EXCEPT ![p] = "bulk_check"]
  /\ UNCHANGED <<sentiment_item, daily_job_run, session_ok, outcome, runs,
                 calls, fx, watch_target, heat>>

\* One pass of bulk_create's loop (lines 220-223).
BulkCheck(p) ==
  /\ pc[p] = "bulk_check"
  /\ LET st == bulk_create_step(sentiment_item,
                  [pending |-> loc[p].pending,
                   created_count |-> loc[p].created_count],
                  loc[p].batch[loc[p].bi])
     IN  /\ loc' = [loc EXCEPT ![p].pending = st.pending,
                               ![p].created_count = st.created_count,
                               ![p].bi = @ + 1]
         /\ pc' = [pc EXCEPT ![p] =
                     IF loc[p].bi = Len(loc[p].batch)
                       THEN "bulk_commit" ELSE "bulk_check"]
  /\ UNCHANGED <<sentiment_item, daily_job_run, session_ok, outcome, runs,
                 calls, fx, watch_target, heat>>

\* self.db.commit(); return created_count (lines 224-225), and in the cycle
\* platform_items += created (line 98).  When the commit raises in the cycle,
\* the target's except (lines 101-103) formats target.display_name, an
\* attribute the rollback has expired: its reload raises PendingRollbackError
\* before anything is appended, and the platform's except appends that error
\* (lines 114-116).
BulkCommit(p) ==
  /\ pc[p] = "bulk_commit"
  /\ LET r == CommitItems(sentiment_item, loc[p].pending)
     IN  IF r.ok
           THEN /\ sentiment_item' = r.rows
                /\ IF loc[p].kind = "cycle"
                     THEN /\ NextTarget(p, [loc[p] EXCEPT
                                 !.platform_items = @ + loc[p].created_count,
                                 !.inserted[loc[p].plat] =
                                    @ + Len(r.rows) - Len(sentiment_item)])
                          /\ UNCHANGED <<session_ok, outcome>>
                     ELSE EndWithRows(p, "returned", "",
                                      loc[p].created_count, None, r.rows)
           ELSE /\ UNCHANGED sentiment_item
                /\ IF loc[p].kind = "cycle"
                     THEN /\ loc' = [loc EXCEPT ![p] =
                                 [@ EXCEPT
                                    !.failed = Some(FailedTarget(loc[p],
                                                      "IntegrityError")),
                                    !.errors = Append(@, PlatformError(loc[p],
                                                 "PendingRollbackError"))]]
                          /\ pc' = [pc EXCEPT ![p] = "plat_failed"]
                          /\ session_ok' = [session_ok EXCEPT ![p] = FALSE]
                          /\ UNCHANGED outcome
                     ELSE Raise(p, "IntegrityError")
  /\ UNCHANGED <<daily_job_run, runs, calls, fx, watch_target, heat>>

\* total_items += platform_items; update_status(platform_job.id, SUCCESS,
\* total_targets=len(targets), total_items=platform_items) (lines 105-112).
PlatSuccess(p) ==
  /\ pc[p] = "plat_success"
  /\ LET l == [loc[p] EXCEPT !.total_items = @ + loc[p].platform_items]
     IN  /\ daily_job_run' =
              update_status(daily_job_run, l.platform_job, SUCCESS,
                            Some(Len(l.targets)), Some(l.platform_items), None)
         /\ NextPlatform(p, l)
  /\ UNCHANGED <<sentiment_item, session_ok, outcome, runs, calls, fx,
                 watch_target, heat>>

\* update_status(platform_job.id, FAILED, error_detail=str(e)) in the
\* platform's except (lines 117-121): on a failed session it raises, and the
\* exception leaves the function through the outer except (lines 144-146).
PlatFailed(p) ==
  /\ pc[p] = "plat_failed"
  /\ IF session_ok[p]
       THEN /\ daily_job_run' =
                 update_status(daily_job_run, loc[p].platform_job, FAILED,
                               None, None,
                               Some(loc[p].errors[Len(loc[p].errors)]))
            /\ NextPlatform(p, loc[p])
            /\ UNCHANGED <<session_ok, outcome>>
       ELSE /\ Raise(p, "PendingRollbackError")
            /\ UNCHANGED daily_job_run
  /\ UNCHANGED <<sentiment_item, runs, calls, fx, watch_target, heat>>

\* final_status (line 124).
FinalStatusInverted(errors) == IF errors = <<>> THEN PARTIAL ELSE SUCCESS

FinalStatus(errors) == IF errors = <<>> THEN SUCCESS ELSE PARTIAL

\* The main job's final status and the returned result (lines 123-142).
MainFinal(p) ==
  /\ pc[p] = "main_final"
  /\ LET final_status == FinalStatus(loc[p].errors)
     IN  /\ daily_job_run' =
              update_status(daily_job_run, loc[p].main_job, final_status,
                            Some(loc[p].total_targets),
                            Some(loc[p].total_items),
                            IF loc[p].errors # <<>>
                              THEN Some(loc[p].errors) ELSE None)
         /\ EndWith(p, "returned", "", 0,
                    Some([date |-> loc[p].date, status |-> final_status,
                          total_targets |-> loc[p].total_targets,
                          total_items |-> loc[p].total_items,
                          errors |-> loc[p].errors]))
  /\ UNCHANGED <<sentiment_item, runs, calls, fx, watch_target, heat>>

\* ------------------------------------------------------ direct store calls
\* sentiment_repo.bulk_create(platform_items) from a request of its own
\* (trigger_crawl, router_public.py line 163).
CallBulk(p, batch) ==
  /\ pc[p] = "idle"
  /\ runs < MaxRuns
  /\ runs' = runs + 1
  /\ pc' = [pc EXCEPT ![p] = IF batch = <<>> THEN "bulk_commit" ELSE "bulk_check"]
  /\ session_ok' = [session_ok EXCEPT ![p] = TRUE]
  /\ loc' = [loc EXCEPT ![p] =
               [IdleLoc EXCEPT !.kind = "bulk", !.batch = batch, !.bi = 1]]
  /\ outcome' = [outcome EXCEPT ![p] = NoOutcome]
  /\ UNCHANGED <<sentiment_item, daily_job_run, calls, fx, watch_target, heat>>

\* SentimentRepository.create: add, commit, with no existence check.
CallCreate(p, item) ==
  /\ pc[p] = "idle"
  /\ runs < MaxRuns
  /\ runs' = runs + 1
  /\ LET r == CommitItems(sentiment_item, <<item>>)
     IN  /\ sentiment_item' = r.rows
         /\ outcome' = [outcome EXCEPT ![p] =
                          [NoOutcome EXCEPT !.kind = "create",
                             !.how = IF r.ok THEN "returned" ELSE "raised",
                             !.error = IF r.ok THEN "" ELSE "IntegrityError",
                             !.edited = CarriesEdit(r.rows, <<item>>)]]
  /\ UNCHANGED <<daily_job_run, pc, session_ok, loc, calls, fx, watch_target,
                 heat>>

\* The target the management interface switches off and on in these runs:
\* the second weibo account.
Editable == {2}

\* PUT /watchlist/{target_id} with enabled set: WatchTargetRepository.update
\* sets the column and commits; no other table is touched.
update_watch_target ==
  /\ \E id \in Editable, enabled \in BOOLEAN :
       /\ watch_target[id].enabled # enabled
       /\ watch_target' = [watch_target EXCEPT ![id].enabled = enabled]
  /\ UNCHANGED <<sentiment_item, daily_job_run, pc, session_ok, loc, outcome,
                 runs, calls, fx, heat>>

Next ==
  \/ \E p \in Procs, d \in Dates : Invoke(p, d)
  \/ \E p \in Procs : MainCreate(p)
  \/ \E p \in Procs : MainRunning(p)
  \/ \E p \in Procs : PlatCreate(p)
  \/ \E p \in Procs : PlatRunning(p)
  \/ \E p \in Procs : PlatSetup(p)
  \/ \E p \in Procs : Fetch(p)
  \/ \E p \in Procs : BulkCheck(p)
  \/ \E p \in Procs : BulkCommit(p)
  \/ \E p \in Procs : PlatSuccess(p)
  \/ \E p \in Procs : PlatFailed(p)
  \/ \E p \in Procs : MainFinal(p)
  \/ \E p \in Procs, batch \in Batches("weibo") : CallBulk(p, batch)
  \/ \E p \in Procs, item \in ItemsOf("weibo") : CallCreate(p, item)
  \/ update_watch_target

Spec == Init /\ [][Next]_vars

\* --------------------------------------- the store, one caller, no overlap
\* A record of a completed store call, for the claims about its result:
\* usable says the session was usable when the call began, added is the number
\* of rows the call added, unchanged that it left every row as it was, replay
\* that the call before it was a bulk_create of the same batch begun on a
\* usable session.
CallRecord(op, batch, usable, how, count, before, after) ==
  [op |-> op, batch |-> batch, usable |-> usable, how |-> how, count |-> count,
   added |-> Len(after) - Len(before),
   unchanged |-> (after = before),
   all_stored |-> AllStored(after, batch),
   replay |-> /\ calls # <<>>
              /\ calls[1].op = "bulk_create"
              /\ calls[1].batch = batch
              /\ calls[1].usable]

\* sentiment_repo.bulk_create(batch) from start to end.  A session whose
\* earlier commit failed raises at the first query or at the commit.
StoreBulkCreate(batch) ==
  /\ runs < MaxCalls
  /\ runs' = runs + 1
  /\ IF ~ session_ok["manual"]
       THEN /\ calls' = <<CallRecord("bulk_create", batch, FALSE,
                            "raised", 0, sentiment_item, sentiment_item)>>
            /\ UNCHANGED <<sentiment_item, session_ok>>
       ELSE LET r == bulk_create(sentiment_item, batch)
            IN  /\ sentiment_item' = r.rows
                /\ session_ok' = [session_ok EXCEPT !["manual"] = r.ok]
                /\ calls' = <<CallRecord("bulk_create", batch, TRUE,
                                IF r.ok THEN "returned" ELSE "raised",
                                IF r.ok THEN r.count ELSE 0,
                                sentiment_item, r.rows)>>
  /\ UNCHANGED <<daily_job_run, pc, loc, outcome, fx, watch_target, heat>>

\* sentiment_repo.create(**item) from start to end.
StoreCreate(item) ==
  /\ runs < MaxCalls
  /\ runs' = runs + 1
  /\ IF ~ session_ok["manual"]
       THEN /\ calls' = <<CallRecord("create", <<item>>, FALSE,
                            "raised", 0, sentiment_item, sentiment_item)>>
            /\ UNCHANGED <<sentiment_item, session_ok>>
       ELSE LET r == CommitItems(sentiment_item, <<item>>)
            IN  /\ sentiment_item' = r.rows
                /\ session_ok' = [session_ok EXCEPT !["manual"] = r.ok]
                /\ calls' = <<CallRecord("create", <<item>>, TRUE,
                                IF r.ok THEN "returned" ELSE "raised",
                                IF r.ok THEN 1 ELSE 0,
                                sentiment_item, r.rows)>>
  /\ UNCHANGED <<daily_job_run, pc, loc, outcome, fx, watch_target, heat>>

\* db = SessionLocal(): the next request, or the next cycle, has a session of
\* its own.
StoreNewSession ==
  /\ ~ session_ok["manual"]
  /\ session_ok' = [session_ok EXCEPT !["manual"] = TRUE]
  /\ UNCHANGED <<sentiment_item, daily_job_run, pc, loc, outcome, runs, calls,
                 fx, watch_target, heat>>

NextStore ==
  \/ \E batch \in Batches("weibo") : StoreBulkCreate(batch)
  \/ \E item \in ItemsOf("weibo") : StoreCreate(item)
  \/ StoreNewSession

SpecStore == Init /\ [][NextStore]_vars

\* ------------------------------------------------------------ the adapters
\* The fields a watch target may carry, and the one its target_type needs.
TargetFields == {"external_id", "symbol", "keyword"}

OwnField(target_type) ==
  CASE target_type = "account" -> "external_id"
    [] target_type = "symbol" -> "symbol"
    [] target_type = "keyword" -> "keyword"

\* The targets handed to fetch: of each type, one that carries just the field
\* of its type, one that carries none, and one that carries all three.
FieldSets(target_type) == { {OwnField(target_type)}, {}, TargetFields }

\* The calls a caller makes on an adapter: fetch(target, from_date, to_date)
\* and fetch_by_keyword(keyword, from_date, to_date).
Calls ==
  UNION { { [adapter |-> PlatformList[i], method |-> "fetch",
             target_type |-> t, fields |-> fs] : fs \in FieldSets(t) } :
          i \in DOMAIN PlatformList, t \in {"account", "symbol", "keyword"} }
  \cup { [adapter |-> PlatformList[i], method |-> "fetch_by_keyword",
          target_type |-> "keyword", fields |-> {"keyword"}] :
         i \in DOMAIN PlatformList }

\* The loops (readers) a call runs, in order.  WeiboCrawler.fetch and
\* ZhihuCrawler.fetch read target.external_id and never look at target_type;
\* XueqiuCrawler.fetch dispatches on target_type and hands target.keyword to
\* fetch_by_keyword as it is.  A missing external_id or symbol is logged and
\* the empty list returned.
ReadersOf(call) ==
  IF call.method = "fetch_by_keyword"
    THEN << call.adapter \o ".fetch_by_keyword" >>
  ELSE CASE call.adapter = "weibo" ->
              IF "external_id" \in call.fields THEN <<"weibo.fetch">> ELSE <<>>
         [] call.adapter = "zhihu" ->
              IF "external_id" \in call.fields
                THEN <<"zhihu._fetch_answers", "zhihu._fetch_articles">>
                ELSE <<>>
         [] call.adapter = "xueqiu" /\ call.target_type = "account" ->
              IF "external_id" \in call.fields
                THEN <<"xueqiu._fetch_user_posts">> ELSE <<>>
         [] call.adapter = "xueqiu" /\ call.target_type = "symbol" ->
              IF "symbol" \in call.fields
                THEN <<"xueqiu._fetch_symbol_posts">> ELSE <<>>
         [] call.adapter = "xueqiu" /\ call.target_type = "keyword" ->
              <<"xueqiu.fetch_by_keyword">>

\* The loops that return at the first item older than from_date.
EarlyExit(reader) ==
  reader \in {"weibo.fetch", "zhihu._fetch_answers", "zhihu._fetch_articles",
              "xueqiu._fetch_user_posts", "xueqiu._fetch_symbol_posts"}

\* The loops that stop when the page says paging.is_end.
UsesIsEnd(reader) ==
  reader \in {"zhihu._fetch_answers", "zhihu._fetch_articles",
              "zhihu.fetch_by_keyword"}

\* The loops that first request base_url for a cookie: the keyword search
\* always, the symbol timeline when the cookies hold no xq_a_token.
NeedsWarmup(reader, token) ==
  \/ reader = "xueqiu.fetch_by_keyword"
  \/ reader = "xueqiu._fetch_symbol_posts" /\ ~ token

\* --- timestamps.  A datetime is [wall, tz]: its wall-clock reading and its
\* tzinfo, "naive" when it has none.  Asia/Shanghai is one unit ahead of UTC.
UtcOffset(tz) == IF tz = "+0000" THEN 0 ELSE 1

\* The instant a datetime denotes; a naive one is read as Shanghai time.
Instant(t) == t.wall - UtcOffset(t.tz)

\* The created_at a weibo post carries: none (wall 0, zone "absent"), or a
\* reading with its offset.  The created_time of zhihu and the created_at of
\* xueqiu are epoch numbers: 0 or missing ("absent"), or a reading ("epoch").
RawTimes(reader) ==
  IF reader \in {"weibo.fetch", "weibo.fetch_by_keyword"}
    THEN { [wall |-> 0, zone |-> "absent"] }
         \cup { [wall |-> w, zone |-> z] : w \in 1..MaxWall,
                                           z \in {"+0800", "+0000"} }
    ELSE { [wall |-> 0, zone |-> "absent"] }
         \cup { [wall |-> w, zone |-> "epoch"] : w \in 1..MaxWall }

\* WeiboCrawler._parse_weibo_time: "+0800" is rewritten to "GMT+0800", which
\* parsedate_to_datetime reads as no offset at all, so the result is naive;
\* any other offset gives an aware datetime.
parse_weibo_time(raw) ==
  CASE raw.zone = "absent" -> None
    [] raw.zone = "+0800" -> Some([wall |-> raw.wall, tz |-> "naive"])
    [] OTHER -> Some([wall |-> raw.wall, tz |-> raw.zone])

\* datetime.fromtimestamp(created) if created else None: a naive datetime.
fromtimestamp(raw) ==
  IF raw.zone = "absent" THEN None
  ELSE Some([wall |-> raw.wall, tz |-> "naive"])

posted_at_of(reader, raw) ==
  IF reader \in {"weibo.fetch", "weibo.fetch_by_keyword"}
    THEN parse_weibo_time(raw)
    ELSE fromtimestamp(raw)

\* Python's a < b on datetimes: naive with aware raises TypeError.
LessThan(a, b) ==
  IF (a.tz = "naive") # (b.tz = "naive") THEN "TypeError"
  ELSE IF a.tz = "naive"
    THEN (IF a.wall < b.wall THEN "True" ELSE "False")
    ELSE (IF Instant(a) < Instant(b) THEN "True" ELSE "False")

\* BaseCrawler._is_in_date_range: tzinfo is removed from all three (the
\* readings are kept as they are), then from_date <= posted_at <= to_date.
is_in_date_range(posted_at, from_date, to_date) ==
  IF posted_at = None THEN FALSE
  ELSE from_date.wall <= posted_at[1].wall /\ posted_at[1].wall <= to_date.wall

\* The windows of a call: one unit long, naive or Asia/Shanghai (the cycle's
\* get_date_range and get_yesterday_range, trigger_crawl's beijing_now), and
\* one whose from_date is later than its to_date.
Windows ==
  { [from |-> 2, to |-> 2, tz |-> tz] : tz \in {"naive", "+0800"} }
  \cup { [from |-> 3, to |-> 1, tz |-> "+0800"] }

WindowFrom(win) == [wall |-> win.from, tz |-> win.tz]

WindowTo(win) == [wall |-> win.to, tz |-> win.tz]

\* The pages a platform may serve to a reader: up to MaxPageLen posts.
Pages(reader) == SeqsUpTo(RawTimes(reader), MaxPageLen)

\* The for loop over one page.  acc is [items, max_id, exit, seen]; exit is
\* "next" while the loop runs on, "return" after return items, "TypeError"
\* when the comparison raised; seen counts the posts the loop looked at.
\* Post k of the page has id first + k.
RECURSIVE process_page(_, _, _, _, _, _)
process_page(reader, page, k, first, win, acc) ==
  IF k > Len(page) \/ acc.exit # "next" THEN acc
  ELSE
    LET posted_at == posted_at_of(reader, page[k])
        older == IF EarlyExit(reader) /\ posted_at # None
                   THEN LessThan(posted_at[1], WindowFrom(win))
                   ELSE "False"
        item == [id |-> first + k, posted_at |-> posted_at]
        at == [acc EXCEPT !.seen = k]
    IN  IF older = "TypeError"
          THEN [at EXCEPT !.exit = "TypeError"]
        ELSE IF older = "True"
          THEN [at EXCEPT !.exit = "return"]
        ELSE IF ~ is_in_date_range(posted_at, WindowFrom(win), WindowTo(win))
          THEN process_page(reader, page, k + 1, first, win, at)
        ELSE process_page(reader, page, k + 1, first, win,
               [at EXCEPT !.items = Append(@, item),
                          !.max_id = IF reader = "xueqiu._fetch_symbol_posts"
                                       THEN first + k ELSE @])

\* Whether a datetime lies in the window of a call, as instants.
InWindow(t, win) ==
  /\ Instant(WindowFrom(win)) <= Instant(t)
  /\ Instant(t) <= Instant(WindowTo(win))

\* The state in which a loop starts: the cookie request, or its first page.
Enter(reader, token) == IF NeedsWarmup(reader, token) THEN "warmup" ELSE "request"

\* A loop is over (break, return items, the except clause, or its ceiling):
\* ZhihuCrawler.fetch goes on to the articles, every other call returns its
\* items.
EndReader(f) ==
  IF f.ri < Len(f.readers)
    THEN [f EXCEPT !.ri = @ + 1, !.page = 0, !.max_id = 0,
                   !.last = MaxWall + 1,
                   !.state = Enter(f.readers[f.ri + 1], f.token)]
    ELSE [f EXCEPT !.state = "done", !.how = "returned"]

\* What is known of the feed once a page was served: the posts of the page
\* that lie in the window, whether the feed is newest first so far, and
\* whether every post carries a timestamp.
Served(f, reader, page) ==
  LET post(k) == [id |-> f.served + k,
                  posted_at |-> posted_at_of(reader, page[k])]
      posts == [k \in 1..Len(page) |-> post(k)]
      HasTime(it) == it.posted_at # None
      InRange(it) == HasTime(it) /\ InWindow(it.posted_at[1], f.win)
      timed == SelectSeq(posts, HasTime)
      at(i) == IF i = 0 THEN f.last ELSE Instant(timed[i].posted_at[1])
  IN  [f EXCEPT !.served = @ + Len(page),
                !.pages = @ + 1,
                !.expected = @ \o SelectSeq(posts, InRange),
                !.stamped = @ /\ Len(timed) = Len(page),
                !.newest_first =
                   @ /\ \A i \in 1..Len(timed) : at(i - 1) >= at(i),
                !.last = at(Len(timed))]

\* Whether one of the first seen posts of a page is older than from_date.
Crossed(reader, page, seen, win) ==
  \E k \in 1..seen :
    LET posted_at == posted_at_of(reader, page[k])
    IN  posted_at # None /\ Instant(posted_at[1]) < Instant(WindowFrom(win))

\* One HTTP request leaves the client.
Sent(f) == [f EXCEPT !.http = @ + 1, !.rested = FALSE]

\* A request raised (timeout, connection error) or, for a page request, came
\* back with another status than 200; the first such failure is noted.
Failed(f) ==
  [f EXCEPT !.failed = TRUE,
            !.fail = IF @ = None
                       THEN Some([pages |-> f.pages, items |-> f.items]) ELSE @]

\* A caller calls fetch(target, from_date, to_date) or
\* fetch_by_keyword(keyword, from_date, to_date) on an adapter.
StartFetch ==
  /\ fx.state = "idle"
  /\ \E call \in Calls, win \in Windows, token \in BOOLEAN :
       /\ token => ReadersOf(call) = <<"xueqiu._fetch_symbol_posts">>
       /\ LET f == [NoFetch EXCEPT !.call = call, !.win = win,
                                   !.token = token,
                                   !.readers = ReadersOf(call),
                                   !.asked = [i \in 1..Len(ReadersOf(call)) |-> 0]]
          IN  fx' = IF f.readers = <<>>
                      THEN [f EXCEPT !.state = "done", !.how = "returned"]
                      ELSE [f EXCEPT !.ri = 1,
                                     !.state = Enter(f.readers[1], token)]
  /\ UNCHANGED <<sentiment_item, daily_job_run, pc, session_ok, loc, outcome,
                 runs, calls, watch_target, heat>>

\* client.get(self.base_url): the response is not looked at; an exception
\* goes to the except clause of the loop.
Warmup ==
  /\ fx.state = "warmup"
  /\ \E raised \in BOOLEAN :
       fx' = IF raised THEN EndReader(Failed(Sent(fx)))
             ELSE [Sent(fx) EXCEPT !.state = "request"]
  /\ UNCHANGED <<sentiment_item, daily_job_run, pc, session_ok, loc, outcome,
                 runs, calls, watch_target, heat>>

\* One turn of a loop: the page request and the for loop over its posts.
Request ==
  /\ fx.state = "request"
  /\ LET reader == fx.readers[fx.ri]
         sent == [Sent(fx) EXCEPT !.asked[fx.ri] = @ + 1]
     IN
     \/ \* the request raises, or the status is not 200
        fx' = EndReader(Failed(sent))
     \/ \E page \in Pages(reader), is_end \in BOOLEAN :
          /\ is_end => UsesIsEnd(reader)
          /\ LET f == Served(sent, reader, page)
                 r == process_page(reader, page, 1, fx.served, fx.win,
                        [items |-> fx.items, max_id |-> fx.max_id,
                         exit |-> "next", seen |-> 0])
                 g == [f EXCEPT !.items = r.items, !.max_id = r.max_id,
                                !.type_error = @ \/ r.exit = "TypeError",
                                !.crossed = @ \/ Crossed(reader, page, r.seen,
                                                         fx.win)]
             IN  fx' = IF page = <<>> \/ r.exit # "next" \/ is_end
                         THEN EndReader(g)
                         ELSE [g EXCEPT !.page = @ + 1, !.state = "sleep"]
  /\ UNCHANGED <<sentiment_item, daily_job_run, pc, session_ok, loc, outcome,
                 runs, calls, watch_target, heat>>

\* A loop without a ceiling.
LoopNeverEnds(f) == TRUE

\* The loop condition: page <= max_pages, offset < max_offset, range(max_pages).
LoopGoesOn(f) == f.page < MaxPages

\* await asyncio.sleep(1), then the loop condition.
Sleep ==
  /\ fx.state = "sleep"
  /\ fx' = IF LoopGoesOn(fx) THEN [fx EXCEPT !.state = "request", !.rested = TRUE]
           ELSE EndReader([fx EXCEPT !.rested = TRUE])
  /\ UNCHANGED <<sentiment_item, daily_job_run, pc, session_ok, loc, outcome,
                 runs, calls, watch_target, heat>>

NextFetch == StartFetch \/ Warmup \/ Request \/ Sleep

SpecFetch == Init /\ [][NextFetch]_vars

\* The event loop runs a call on: every request is answered or times out
\* (timeout=30, httpx's default for the cookie request), every sleep ends.
SpecFetchFair == SpecFetch /\ WF_vars(NextFetch)

\* ----------------------------------------------------------- the heat score
\* Python's float(n) of a non-negative int: the same number as a float, exact
\* below 2^53.
float(n) == [type |-> "float", value |-> n]

\* Other weights than the source's.
calculate_heat_score_flat(likes, comments, reposts) ==
  float(likes + comments + reposts)

\* BaseCrawler._calculate_heat_score.
calculate_heat_score(likes, comments, reposts) ==
  float(likes + comments * 2 + reposts * 3)

\* The loops that build items from a platform's JSON; each calls
\* self._calculate_heat_score for the item it builds.
HeatSites ==
  {"weibo.fetch", "weibo.fetch_by_keyword", "zhihu._fetch_answers",
   "zhihu._fetch_articles", "zhihu.fetch_by_keyword",
   "xueqiu._fetch_user_posts", "xueqiu._fetch_symbol_posts",
   "xueqiu.fetch_by_keyword"}

\* The zhihu loops pass likes and comments only: reposts keeps its default, 0.
PassesReposts(site) ==
  site \notin {"zhihu._fetch_answers", "zhihu._fetch_articles",
               "zhihu.fetch_by_keyword"}

\* A loop reaches a post with its engagement counts.
HeatPost ==
  /\ heat.state = "idle"
  /\ \E site \in HeatSites, likes, comments, reposts \in 0..MaxCount :
       /\ ~ PassesReposts(site) => reposts = 0
       /\ heat' = [NoHeat EXCEPT !.state = "post", !.site = site,
                                 !.likes = likes, !.comments = comments,
                                 !.reposts = reposts]
  /\ UNCHANGED <<sentiment_item, daily_job_run, pc, session_ok, loc, outcome,
                 runs, calls, fx, watch_target>>

\* heat_score = self._calculate_heat_score(likes=..., comments=..., reposts=...)
HeatScore ==
  /\ heat.state = "post"
  /\ heat' = [heat EXCEPT !.state = "scored",
                          !.heat_score =
                             Some(calculate_heat_score(heat.likes, heat.comments,
                                                       heat.reposts))]
  /\ UNCHANGED <<sentiment_item, daily_job_run, pc, session_ok, loc, outcome,
                 runs, calls, fx, watch_target>>

NextHeat == HeatPost \/ HeatScore

SpecHeat == Init /\ [][NextHeat]_vars

\* ================================================================ claims
\* C1: no two stored sentiment_item rows share a (platform, comment_id) pair,
\* in any state any interleaving of create, bulk_create and cycles reaches.
C1_DedupKeyIntegrity ==
  \A i, j \in DOMAIN sentiment_item :
     i # j => Key(sentiment_item[i]) # Key(sentiment_item[j])

\* C1 witness: a direct call was refused by the constraint while rows stand.
C1_Witness ==
  /\ Len(sentiment_item) >= 2
  /\ \E p \in Procs : /\ outcome[p].kind \in {"bulk", "create"}
                      /\ outcome[p].error = "IntegrityError"

\* C2: two bulk_create calls in a row with the same batch of pairwise
\* distinct keys, the first begun on a usable session: the second returns 0
\* and leaves the stored rows as the first left them.
C2_IdempotentBulkCreate ==
  \A n \in DOMAIN calls :
     ( /\ calls[n].op = "bulk_create"
       /\ calls[n].replay
       /\ DistinctKeys(calls[n].batch) )
     => /\ calls[n].how = "returned"
        /\ calls[n].count = 0
        /\ calls[n].unchanged

\* C2 witness: a batch of two new keys was stored and then replayed.
C2_Witness ==
  /\ calls # <<>>
  /\ calls[1].op = "bulk_create"
  /\ calls[1].replay
  /\ DistinctKeys(calls[1].batch)
  /\ Len(calls[1].batch) = 2
  /\ calls[1].all_stored
  /\ calls[1].count = 0
  /\ Len(sentiment_item) >= 2

\* C3: every bulk_create call begun on a usable session returns, and returns
\* the number of rows it added (store size after minus store size before).
C3_ReturnsInsertedCount ==
  \A n \in DOMAIN calls :
     (calls[n].op = "bulk_create" /\ calls[n].usable)
     => /\ calls[n].how = "returned"
        /\ calls[n].count = calls[n].added

\* C4: a bulk_create call begun on a usable session completes without raising
\* whatever keys its batch repeats, and every key of the batch is stored
\* afterwards.
C4_DuplicatesDroppedSilently ==
  \A n \in DOMAIN calls :
     (calls[n].op = "bulk_create" /\ calls[n].usable)
     => /\ calls[n].how # "raised"
        /\ calls[n].all_stored

\* C5: when the two callers' bulk_create calls, each with a batch of pairwise
\* distinct keys, have run interleaved, neither has failed and every item of
\* both batches is stored.
C5_InterleavedCallsSucceed ==
  (\A p \in Procs : /\ outcome[p].kind = "bulk"
                    /\ outcome[p].how # "none"
                    /\ outcome[p].distinct)
  => \A p \in Procs : /\ outcome[p].how = "returned"
                      /\ outcome[p].all_stored

\* C6: stored rows are append-only: no step changes a field of a stored row
\* or removes it.
C6_AppendOnly ==
  [][\A i \in DOMAIN sentiment_item :
        /\ i \in DOMAIN sentiment_item'
        /\ sentiment_item'[i] = sentiment_item[i]]_vars

\* C6 witness: a bulk_create that carried other content for a stored key has
\* returned, and the stored row still holds the earlier content.
C6_Witness ==
  \E p \in Procs :
     /\ outcome[p].kind = "bulk"
     /\ outcome[p].how = "returned"
     /\ outcome[p].edited

StatusStep(a, b) ==
  \/ a = b
  \/ a = PENDING /\ b = RUNNING
  \/ a = RUNNING /\ b \in TerminalStatuses

\* C7: a run record is created pending and its status only moves
\* pending -> running -> {success, failed, partial}; a terminal status never
\* changes again.
C7_StatusLifecycle ==
  [][/\ \A i \in DOMAIN daily_job_run :
          /\ i \in DOMAIN daily_job_run'
          /\ StatusStep(daily_job_run[i].status, daily_job_run'[i].status)
     /\ \A i \in DOMAIN daily_job_run' :
          i \notin DOMAIN daily_job_run => daily_job_run'[i].status = PENDING]_vars

\* C7 witness: a cycle invoked for a date whose umbrella record was terminal
\* has ended, and the record is terminal.
C7_Witness ==
  \E p \in Procs :
     /\ outcome[p].kind = "cycle"
     /\ outcome[p].how # "none"
     /\ outcome[p].prior \in TerminalStatuses
     /\ StatusOf(daily_job_run, outcome[p].date, "all") \in TerminalStatuses

\* C8: at most one daily_job_run row per (date, platform).
C8_OneRunPerDatePlatform ==
  \A i, j \in DOMAIN daily_job_run :
     (i # j) => ~ ( /\ daily_job_run[i].date = daily_job_run[j].date
                    /\ daily_job_run[i].platform = daily_job_run[j].platform )

\* C8 witness: all four records of a date exist and a second cycle for that
\* date has ended.
C8_Witness ==
  /\ Len(daily_job_run) = Len(PlatformList) + 1
  /\ \E p \in Procs : /\ outcome[p].kind = "cycle"
                      /\ outcome[p].how # "none"
                      /\ outcome[p].prior # "none"

\* C9: a cycle invoked for a date whose earlier cycle has finished completes
\* normally (and reuses the date's records).
C9_RerunCompletes ==
  \A p \in Procs :
     (outcome[p].kind = "cycle" /\ outcome[p].prior \in TerminalStatuses)
     => outcome[p].how = "returned"

\* C10: no invocation of run_daily_crystal_job ends by raising.
C10_NeverRaises ==
  \A p \in Procs : outcome[p].kind = "cycle" => outcome[p].how # "raised"

\* Positions of a cycle from its first fetch to its last write of items.
Working == {"plat_setup", "fetch", "bulk_check", "bulk_commit",
            "plat_success", "plat_failed", "main_final"}

\* C11: a cycle invoked for a date while another cycle for that date is under
\* way ends without raising, and no two cycles are ever fetching or persisting
\* for the same date at once.
C11_SecondInvocationNoOp ==
  /\ \A p \in Procs :
        (outcome[p].kind = "cycle" /\ outcome[p].inflight)
        => outcome[p].how # "raised"
  /\ \A p, q \in Procs :
        ( /\ p # q
          /\ loc[p].kind = "cycle" /\ loc[q].kind = "cycle"
          /\ loc[p].date = loc[q].date )
        => ~ (pc[p] \in Working /\ pc[q] \in Working)

\* The run record of (date, platform); there is one when it is asked for.
JobOf(tbl, date, platform) ==
  tbl[CHOOSE i \in DOMAIN tbl :
        tbl[i].date = date /\ tbl[i].platform = platform]

\* C12: when the processing of a target has raised in a cycle, that cycle has
\* still fetched and persisted every other enabled target of the platform
\* (none that comes after it is left out), and the platform's record has not
\* ended failed.
C12_TargetIsolation ==
  \A p \in Procs :
     (outcome[p].kind = "cycle" /\ outcome[p].failed # None)
     => /\ outcome[p].failed[1].later = 0
        /\ StatusOf(daily_job_run, outcome[p].date,
                    outcome[p].failed[1].platform) # FAILED

\* Whether an error_detail value carries the error of the failed target f.
MentionsTarget(detail, f) ==
  /\ detail # None
  /\ detail[1].platform = f.platform
  /\ detail[1].target = f.target

\* C13: when the processing of a target has raised in a cycle, the platform's
\* own record reaches a terminal status and its error_detail carries that
\* target's error.
C13_TargetErrorRecorded ==
  \A p \in Procs :
     (outcome[p].kind = "cycle" /\ outcome[p].failed # None)
     => LET f == outcome[p].failed[1]
            job == JobOf(daily_job_run, outcome[p].date, f.platform)
        IN  /\ job.status \in TerminalStatuses
            /\ MentionsTarget(job.error_detail, f)

\* The platforms with no active credential.
NoCredential ==
  { PlatformList[k] : k \in { i \in DOMAIN PlatformList :
                                get_active_by_platform(PlatformList[i]) = None } }

\* C14: when a cycle has returned, the record of every platform that had no
\* active credential has ended failed with an error_detail, and the records of
\* the remaining platforms have reached a terminal status too.
C14_NoCredentialPlatformFails ==
  \A p \in Procs :
     (outcome[p].kind = "cycle" /\ outcome[p].how = "returned")
     => \A k \in DOMAIN PlatformList :
           LET job == JobOf(daily_job_run, outcome[p].date, PlatformList[k])
           IN  /\ job.status \in TerminalStatuses
               /\ PlatformList[k] \in NoCredential
                  => (job.status = FAILED /\ job.error_detail # None)

\* C15: a cycle invokes crawler.fetch only for targets of platforms that have
\* an active credential: no step that counts a target and fetches it is taken
\* for a platform without one.
C15_NoCredentialPlatformSkipped ==
  [][\A p \in Procs :
        ( /\ pc[p] = "fetch"
          /\ loc'[p].total_targets = loc[p].total_targets + 1 )
        => PlatformList[loc[p].plat] \notin NoCredential]_vars

\* C16: when a cycle that created its umbrella record has ended, the record's
\* status is success exactly when the cycle gathered no error, and a returned
\* result's errors list is empty exactly when the status is success.
C16_SuccessIffNoErrors ==
  \A p \in Procs :
     (outcome[p].kind = "cycle" /\ outcome[p].main_job # 0)
     => LET job == daily_job_run[outcome[p].main_job]
        IN  /\ (job.status = SUCCESS) <=> (outcome[p].errors = <<>>)
            /\ outcome[p].result # None
               => /\ (outcome[p].result[1].errors = <<>>)
                       <=> (job.status = SUCCESS)
                  /\ outcome[p].result[1].status = job.status

\* C16 witness: a cycle has returned with no error after storing items, and
\* its umbrella record is success.
C16_Witness ==
  \E p \in Procs :
     /\ outcome[p].kind = "cycle"
     /\ outcome[p].how = "returned"
     /\ outcome[p].errors = <<>>
     /\ outcome[p].result[1].total_items > 0
     /\ daily_job_run[outcome[p].main_job].status = SUCCESS

\* Whether some platform record of the date has ended success.
SomePlatformCompleted(tbl, date) ==
  \E i \in DOMAIN tbl :
     tbl[i].date = date /\ tbl[i].platform # "all" /\ tbl[i].status = SUCCESS

\* C17: when a cycle in which errors occurred has ended, its umbrella record
\* is partial if a platform's processing completed and failed if none did.
C17_PartialOrFailed ==
  \A p \in Procs :
     ( /\ outcome[p].kind = "cycle"
       /\ outcome[p].main_job # 0
       /\ outcome[p].errors # <<>> )
     => daily_job_run[outcome[p].main_job].status =
          IF SomePlatformCompleted(daily_job_run, outcome[p].date)
            THEN PARTIAL ELSE FAILED

\* C18: when a cycle that created its umbrella record has ended, every
\* platform record of its date holds as total_items the number of rows the
\* cycle added for the platform and as total_targets the number of the
\* platform's enabled targets, and the umbrella record holds the sums over the
\* three platforms.
C18_CountsMatch ==
  \A p \in Procs :
     (outcome[p].kind = "cycle" /\ outcome[p].main_job # 0)
     => /\ \A k \in DOMAIN PlatformList :
             StatusOf(daily_job_run, outcome[p].date, PlatformList[k]) # "none"
             => LET job == JobOf(daily_job_run, outcome[p].date, PlatformList[k])
                IN  /\ job.total_items = outcome[p].inserted[k]
                    /\ job.total_targets = Len(get_by_platform(PlatformList[k]))
        /\ LET job == daily_job_run[outcome[p].main_job]
           IN  /\ job.total_items = outcome[p].inserted[1]
                     + outcome[p].inserted[2] + outcome[p].inserted[3]
               /\ job.total_targets = Len(get_by_platform(PlatformList[1]))
                     + Len(get_by_platform(PlatformList[2]))
                     + Len(get_by_platform(PlatformList[3]))

\* C19: every item an adapter has collected carries a posted_at, and that
\* posted_at lies between from_date and to_date, whatever the feed serves.
C19_RangeContainment ==
  \A i \in 1..Len(fx.items) :
    /\ fx.items[i].posted_at # None
    /\ InWindow(fx.items[i].posted_at[1], fx.win)

\* C20: when fetch(target, from_date, to_date) has returned, no request
\* failed, and the feed was newest first with a timestamp on every post, the
\* items returned are exactly the posts of the served pages that lie in the
\* window.
C20_ExactInWindowItems ==
  ( /\ fx.state = "done"
    /\ fx.call.method = "fetch"
    /\ ~ fx.failed /\ fx.newest_first /\ fx.stamped )
  => fx.items = fx.expected

\* C21: once a loop has looked at a post older than from_date, the call has
\* returned its items: no page request follows, for any adapter and any kind
\* of target.
C21_EarlyExitStops == fx.crossed => fx.state = "done"

\* A page request that is answered with an empty page ends its loop.
EmptyPageEnds ==
  ( /\ fx.state = "request"
    /\ fx'.pages = fx.pages + 1
    /\ fx'.served = fx.served )
  => (fx'.state = "done" \/ fx'.ri = fx.ri + 1)

\* C22: every call of an adapter returns; no loop sends more page requests
\* than its ceiling, whatever the pages hold; an empty page ends the loop at
\* once.
C22_BoundedPagination ==
  /\ [](\A i \in 1..Len(fx.asked) : fx.asked[i] <= MaxPages)
  /\ [][EmptyPageEnds]_vars
  /\ (fx.state # "idle") ~> (fx.state = "done")

\* A call that ended at its ceiling: every page was full and no post was older
\* than from_date.
C22_Witness ==
  /\ fx.state = "done"
  /\ Len(fx.readers) = 1
  /\ fx.asked[1] = MaxPages
  /\ fx.served = MaxPages * MaxPageLen
  /\ ~ fx.crossed /\ ~ fx.failed

\* C23: after a page request failed with at least one page already obtained,
\* the call has returned, without raising, exactly the items it held when the
\* request failed.
C23_FailureKeepsPartial ==
  (fx.fail # None /\ fx.fail[1].pages >= 1)
  => ( /\ fx.state = "done"
       /\ fx.how = "returned"
       /\ fx.items = fx.fail[1].items )

\* C24: a call whose first request failed, before any page was obtained, ends
\* by raising to its caller, and not by returning a list.
C24_TotalFailureRaises ==
  (fx.state = "done" /\ fx.fail # None /\ fx.fail[1].pages = 0)
  => fx.how = "raised"

\* C25: within one call, a request leaves only when the call has slept since
\* its previous request (or has sent none yet): no two requests to the
\* platform's host go out back to back.
C25_DelayBetweenRequests == [][fx'.http = fx.http + 1 => fx.rested]_vars

\* C26: fetch on a target that lacks the field of its target_type raises a
\* configuration error to its caller and sends no request.
C26_MissingFieldFailsFast ==
  ( /\ fx.state # "idle"
    /\ fx.call.method = "fetch"
    /\ OwnField(fx.call.target_type) \notin fx.call.fields )
  => (fx.state = "done" /\ fx.how = "raised" /\ fx.http = 0)

\* C27: a call whose from_date is later than its to_date is refused before any
\* I/O: it raises to its caller and sends no request.
C27_InvalidRangeRejected ==
  (fx.state # "idle" /\ fx.win.from > fx.win.to)
  => (fx.state = "done" /\ fx.how = "raised" /\ fx.http = 0)

\* The loops that read an account's timeline, and those that read a symbol's.
AccountTimelines ==
  { <<"weibo.fetch">>, <<"zhihu._fetch_answers", "zhihu._fetch_articles">>,
    <<"xueqiu._fetch_user_posts">> }

SymbolTimelines == { <<"xueqiu._fetch_symbol_posts">> }

\* C29: fetch on a target that carries the field of its target_type runs the
\* strategy of that type: the adapter's keyword search (the loop of its
\* fetch_by_keyword) for a keyword target, a symbol timeline for a symbol
\* target, the account timeline for an account target.
C29_StrategyByTargetType ==
  ( /\ fx.state # "idle"
    /\ fx.call.method = "fetch"
    /\ OwnField(fx.call.target_type) \in fx.call.fields )
  => /\ fx.call.target_type = "keyword"
          => fx.readers = << fx.call.adapter \o ".fetch_by_keyword" >>
     /\ fx.call.target_type = "symbol" => fx.readers \in SymbolTimelines
     /\ fx.call.target_type = "account" => fx.readers \in AccountTimelines

\* C30: the heat score of every item an adapter builds is the float
\* likes + 2 * comments + 3 * reposts of the counts handed to
\* _calculate_heat_score, at every adapter and every loop.
C30_HeatScoreFormula ==
  heat.state = "scored"
  => /\ heat.heat_score[1].type = "float"
     /\ heat.heat_score[1].value
          = heat.likes * 1 + heat.comments * 2 + heat.reposts * 3

\* A scored post whose three counts all weigh in.
C30_Witness ==
  /\ heat.state = "scored"
  /\ heat.likes > 0 /\ heat.comments > 0 /\ heat.reposts > 0
  /\ heat.heat_score[1].value = heat.likes + 2 * heat.comments + 3 * heat.reposts

\* C28: a cycle calls fetch only on targets of the platform it is processing
\* that were enabled when it listed the platform's targets, so a target that
\* is disabled at the listing is not fetched; and switching a target off or
\* on leaves the stored items as they are.
C28_OnlyEnabledTargetsFetched ==
  [][ /\ \A p \in Procs :
           (pc[p] = "fetch" /\ loc'[p].total_targets = loc[p].total_targets + 1)
           => LET t == loc[p].targets[loc[p].ti]
              IN  /\ t \in loc[p].listed
                  /\ watch_target[t].platform = PlatformList[loc[p].plat]
      /\ watch_target' # watch_target => sentiment_item' = sentiment_item
    ]_vars

\* A cycle has listed weibo's targets with the second one disabled, fetched the
\* first, and items are stored.
C28_Witness ==
  /\ ~ watch_target[2].enabled
  /\ sentiment_item # <<>>
  /\ \E p \in Procs :
       /\ pc[p] = "plat_success"
       /\ PlatformList[loc[p].plat] = "weibo"
       /\ loc[p].targets = <<1>>
       /\ loc[p].total_targets = 1

\* The position of a platform in the cycle's platform loop.
PlatformIndex(platform) ==
  CHOOSE j \in DOMAIN PlatformList : PlatformList[j] = platform

\* C31: when a cycle has ended and its errors list holds an error of a
\* platform (one that was caught by the platform's except, outside the try of
\* any single target), that platform's record is failed and carries the error
\* text, and every later platform has been processed to a terminal record.
C31_PlatformErrorIsolated ==
  \A p \in Procs :
     (outcome[p].kind = "cycle" /\ outcome[p].main_job # 0)
     => \A k \in DOMAIN outcome[p].errors :
          LET e == outcome[p].errors[k]
          IN  e.target = 0
              => /\ StatusOf(daily_job_run, outcome[p].date, e.platform) = FAILED
                 /\ JobOf(daily_job_run, outcome[p].date,
                          e.platform).error_detail # None
                 /\ \A j \in DOMAIN PlatformList :
                      j > PlatformIndex(e.platform)
                      => StatusOf(daily_job_run, outcome[p].date,
                                  PlatformList[j]) \in TerminalStatuses

\* C32: when a cycle that created its umbrella record has ended, by returning
\* or by raising, every run record of its date is in a terminal status: none
\* is left pending or running.
C32_NoRecordLeftRunning ==
  \A p \in Procs :
     (outcome[p].kind = "cycle" /\ outcome[p].main_job # 0)
     => \A i \in DOMAIN daily_job_run :
          daily_job_run[i].date = outcome[p].date
          => daily_job_run[i].status \in TerminalStatuses

\* A platform's run record is created in this step.
PlatformRecordCreated(i) ==
  /\ i \in DOMAIN daily_job_run' \ DOMAIN daily_job_run
  /\ daily_job_run'[i].platform # "all"

\* The umbrella record i receives its terminal status in this step.
UmbrellaFinished(i) ==
  /\ i \in DOMAIN daily_job_run
  /\ daily_job_run[i].platform = "all"
  /\ daily_job_run[i].status \notin TerminalStatuses
  /\ daily_job_run'[i].status \in TerminalStatuses

\* C33: a platform's record is created only while the umbrella record of its
\* date is running, and the umbrella record receives its terminal status only
\* when every platform of the cycle has a record in a terminal status.
C33_UmbrellaBrackets ==
  [][ /\ \A i \in DOMAIN daily_job_run' :
           PlatformRecordCreated(i)
           => StatusOf(daily_job_run, daily_job_run'[i].date, "all") = RUNNING
      /\ \A i \in DOMAIN daily_job_run :
           UmbrellaFinished(i)
           => \A k \in DOMAIN PlatformList :
                StatusOf(daily_job_run, daily_job_run[i].date, PlatformList[k])
                  \in TerminalStatuses
    ]_vars

\* A cycle has returned: its umbrella record and its three platform records
\* are terminal.
C33_Witness ==
  \E p \in Procs :
     /\ outcome[p].kind = "cycle" /\ outcome[p].how = "returned"
     /\ daily_job_run[outcome[p].main_job].status \in TerminalStatuses
     /\ \A k \in DOMAIN PlatformList :
          StatusOf(daily_job_run, outcome[p].date, PlatformList[k])
            \in TerminalStatuses

\* C34: the result a cycle returns agrees with its umbrella record: the same
\* date, status, total_targets and total_items, and the record's error_detail
\* holds the errors list, or is unset when the list is empty.
C34_ResultAgreesWithRecord ==
  \A p \in Procs :
     (outcome[p].kind = "cycle" /\ outcome[p].how = "returned")
     => LET result == outcome[p].result[1]
            job == daily_job_run[outcome[p].main_job]
        IN  /\ job.platform = "all"
            /\ job.date = result.date
            /\ job.status = result.status
            /\ job.total_targets = result.total_targets
            /\ job.total_items = result.total_items
            /\ job.error_detail =
                 IF result.errors = <<>> THEN None ELSE Some(result.errors)

\* A cycle has returned a result that counts stored items.
C34_Witness ==
  \E p \in Procs :
     /\ outcome[p].kind = "cycle" /\ outcome[p].how = "returned"
     /\ outcome[p].result[1].total_items > 0
     /\ outcome[p].result[1].total_targets > 0

\* C35: when a bulk_create of a cycle has failed with targets of the platform
\* still to come, the cycle goes on to store their items and returns.
C35_LaterBulkCreateSucceeds ==
  \A p \in Procs :
     ( /\ outcome[p].kind = "cycle"
       /\ outcome[p].failed # None
       /\ outcome[p].failed[1].later > 0 )
     => outcome[p].how = "returned"

\* C36: in no call does the comparison posted_at < from_date of a post that
\* carries a timestamp raise, whatever the timezone information of the window
\* and of the post.
C36_EarlyExitComparisonTotal == ~ fx.type_error

\* C37: every page request of the Xueqiu symbol loop after the first carries
\* as max_id the id of the last post of the page before it.
C37_CursorFollowsLastPost ==
  ( /\ fx.state = "request"
    /\ fx.readers[fx.ri] = "xueqiu._fetch_symbol_posts"
    /\ fx.page >= 1 )
  => fx.max_id = fx.served

=============================================================================
